---- MODULE Spec2Model ----
(***************************************************************************)
(* The /chat-command dialogue of src/main.py: one stored session row per   *)
(* session_id (table "sessions"), a supplier directory (table "suppliers"),*)
(* the text generator and the n8n email webhook.                           *)
(*                                                                         *)
(* Text is a sequence of one-character strings.  Python's None is the      *)
(* one-element sequence None, which no text equals.  A Python dict is a    *)
(* function whose DOMAIN is the set of keys present.                       *)
(***************************************************************************)
EXTENDS Integers, Sequences, FiniteSets, TLC

\* ------------------------------------------------------------------ bounds
\* how many times the suppliers table changes under a conversation
MaxSupplierChanges == 1

SessionIds == {"s1"}

\* ------------------------------------------------------------- Python text
None == <<"<None>">>

NoneStr == <<"N", "o", "n", "e">>

ToLower ==
    [c \in {"A", "B", "C", "D", "E", "F", "G", "H", "I", "J", "K", "L", "M",
            "N", "O", "P", "Q", "R", "S", "T", "U", "V", "W", "X", "Y", "Z"} |->
        CASE c = "A" -> "a" [] c = "B" -> "b" [] c = "C" -> "c" [] c = "D" -> "d"
          [] c = "E" -> "e" [] c = "F" -> "f" [] c = "G" -> "g" [] c = "H" -> "h"
          [] c = "I" -> "i" [] c = "J" -> "j" [] c = "K" -> "k" [] c = "L" -> "l"
          [] c = "M" -> "m" [] c = "N" -> "n" [] c = "O" -> "o" [] c = "P" -> "p"
          [] c = "Q" -> "q" [] c = "R" -> "r" [] c = "S" -> "s" [] c = "T" -> "t"
          [] c = "U" -> "u" [] c = "V" -> "v" [] c = "W" -> "w" [] c = "X" -> "x"
          [] c = "Y" -> "y" [] c = "Z" -> "z"]

\* str.lower()
Lower(s) == [i \in 1..Len(s) |-> IF s[i] \in DOMAIN ToLower THEN ToLower[s[i]] ELSE s[i]]

\* the `in` operator on two strings
Contains(sub, s) ==
    \E i \in 0..(Len(s) - Len(sub)) : SubSeq(s, i + 1, i + Len(sub)) = sub

\* str.strip(): drop the leading and the trailing blanks
RECURSIVE LStrip(_)
LStrip(s) == IF s # <<>> /\ Head(s) = " " THEN LStrip(Tail(s)) ELSE s

RECURSIVE RStrip(_)
RStrip(s) ==
    IF s # <<>> /\ s[Len(s)] = " " THEN RStrip(SubSeq(s, 1, Len(s) - 1)) ELSE s

Strip(s) == RStrip(LStrip(s))

\* str.split()[0] of a stripped, non-empty string: the text before the first blank
RECURSIVE FirstWord(_)
FirstWord(s) ==
    IF s = <<>> \/ Head(s) = " " THEN <<>> ELSE <<Head(s)>> \o FirstWord(Tail(s))

\* Python truthiness of a string-or-None value
Falsy(v) == v = None \/ v = <<>>

\* f"{v}" of a string-or-None value
Format(v) == IF v = None THEN NoneStr ELSE v

\* dict.get(key) and dict.get(key, default)
Get(d, k) == IF k \in DOMAIN d THEN d[k] ELSE None

GetOr(d, k, default) == IF k \in DOMAIN d THEN d[k] ELSE default

\* d[k] = v on a dict
Put(d, k, v) == [x \in (DOMAIN d) \cup {k} |-> IF x = k THEN v ELSE d[x]]

EmptyDict == <<>>

\* ------------------------------------------------------- the outside world
\* Every row the suppliers table can hold, in table order.
AllSuppliers ==
    << [id |-> 1, name |-> <<"O", "m", "a", "r", " ", "S", "a", "i", "d">>, email |-> "said.x"],
       [id |-> 2, name |-> <<"O", "m", "a", "r">>, email |-> "omar.x"],
       [id |-> 3, name |-> <<"O", "m", "a", "r">>, email |-> "omar.y"] >>

SupplierIds == DOMAIN AllSuppliers

\* The raw `message` fields a client posts.
RawMessages ==
    { <<" ">>, <<" ", "Y", "E", "S", " ">>, <<"n", "o">>, <<"N", "o", "t", " ", "O", "K">>, <<"o", "m", "a", "r">>, <<"m", "a", "r">> }

\* The raw `message` fields a client posts in answer to a draft: the keywords
\* of both lists alone, words that hold one inside, and words that hold none.
ApprovalReplies ==
    { <<"y", "e", "s">>, <<"y", "e", "a", "h">>, <<"y", "e", "p">>, <<"s", "u", "r", "e">>, <<"c", "o", "r", "r", "e", "c", "t">>, <<"g", "o", " ", "a", "h", "e", "a", "d">>, <<"s", "e", "n", "d">>,
      <<"o", "k">>, <<"O", "k", "a", "y">>, <<"a", "p", "p", "r", "o", "v", "e">>, <<"n", "o">>, <<"n", "o", "t">>, <<"c", "h", "a", "n", "g", "e">>, <<"e", "d", "i", "t">>,
      <<"r", "e", "w", "r", "i", "t", "e">>, <<"a", "g", "a", "i", "n">>, <<"r", "e", "d", "o">>, <<"r", "e", "v", "i", "s", "e">>, <<"k", "n", "o", "w">>, <<"h", "e", "l", "l", "o">>,
      <<"y", "e", "s", " ", "b", "u", "t", " ", "e", "d", "i", "t">>, <<" ", "r", "e", "v", "i", "s", "e", " ", "i", "t", " ">> }

\* What the text generator answers to the extraction prompt: text that
\* json.loads or the .get calls reject (not JSON, or JSON that is no object),
\* or a JSON object.
ExtractionContents ==
    { [kind |-> "text"],
      [kind |-> "object", fields |-> [topic |-> <<"i", "r", "o", "n">>]],
      [kind |-> "object", fields |-> [name |-> <<"o", "m", "a", "r">>, topic |-> <<"i", "r", "o", "n">>]],
      [kind |-> "object", fields |-> [name |-> <<"s", "a", "i", "d">>]],
      [kind |-> "object", fields |-> [name |-> <<"z", "e", "d">>, topic |-> <<"i", "r", "o", "n">>]] }

\* What the text generator answers to the drafting prompt.
DraftContents == { <<" ">>, <<"H", "i">>, <<" ", "Y", "o", " ">> }

\* ------------------------------------------------------------- collaborators
Min(S) == CHOOSE x \in S : \A y \in S : x <= y

\* the suppliers table holding the rows whose ids are in `present`
Table(present) == SelectSeq(AllSuppliers, LAMBDA r : r.id \in present)

\* supabase.table("suppliers").select("*").eq("name", name)
QueryEq(table, name) == SelectSeq(table, LAMBDA r : r.name = name)

\* supabase.table("suppliers").select("*").ilike("name", f"%{name}%")
QueryILike(table, name) ==
    SelectSeq(table, LAMBDA r : Contains(Lower(Format(name)), Lower(r.name)))

\* the external calls a request makes, in order
SelectSession == [op |-> "select"]

Upsert(new_context, user_message) ==
    [op |-> "upsert", context |-> new_context, last_message |-> user_message]

Query(kind, name, rows) == [op |-> "query", kind |-> kind, name |-> name, rows |-> rows]

Gpt(purpose) == [op |-> "gpt", purpose |-> purpose]

Post(email_payload) == [op |-> "post", payload |-> email_payload]

\* ------------------------------------------------------------ chat_command
\* (mutant) the keyword list of an earlier variant of the handler
PositiveResponsesWithApprove ==
    { <<"y", "e", "s">>, <<"o", "k", "a", "y">>, <<"g", "o", " ", "a", "h", "e", "a", "d">>, <<"s", "e", "n", "d">>, <<"s", "u", "r", "e">>, <<"a", "p", "p", "r", "o", "v", "e">> }

PositiveResponses ==
    { <<"y", "e", "s">>, <<"y", "e", "a", "h">>, <<"y", "e", "p">>, <<"s", "u", "r", "e">>, <<"c", "o", "r", "r", "e", "c", "t">>, <<"g", "o", " ", "a", "h", "e", "a", "d">>, <<"s", "e", "n", "d">>, <<"o", "k">>, <<"o", "k", "a", "y">> }

NegativeResponses ==
    { <<"n", "o">>, <<"n", "o", "t">>, <<"c", "h", "a", "n", "g", "e">>, <<"e", "d", "i", "t">>, <<"r", "e", "w", "r", "i", "t", "e">>, <<"a", "g", "a", "i", "n">>, <<"r", "e", "d", "o">> }

IsPositive(lower_msg) == \E word \in PositiveResponses : Contains(word, lower_msg)

IsNegative(lower_msg) == \E word \in NegativeResponses : Contains(word, lower_msg)

SubjectPrefix == <<"F", "o", "l", "l", "o", "w", "-", "u", "p", " ", "o", "n", ":", " ">>

DefaultTopic == <<"y", "o", "u", "r", " ", "r", "e", "q", "u", "e", "s", "t">>

DraftSubject(topic) == SubjectPrefix \o Format(topic)

\* A reply's fixed text is a one-element tuple, an f-string the tuple of its
\* text and its argument.
\* the reply that shows a draft for approval
DraftReply(recipient, draft_subject, draft_message) ==
    [status |-> "awaiting_approval", recipient |-> recipient.name,
     recipient_email |-> recipient.email, subject |-> draft_subject,
     message |-> draft_message]

\* draft the email and save it for approval: the generator call, the subject
\* built from the topic, the second write of the session
DraftAndSave(context, user_message, recipient, topic, draft_content) ==
    LET draft_message == Strip(draft_content)
        draft_subject == DraftSubject(topic)
    IN  [effects |-> <<Gpt("draft"),
                       Upsert(Put(Put(context, "last_email_message", draft_message),
                                  "last_email_subject", draft_subject),
                              user_message)>>,
         reply |-> DraftReply(recipient, draft_subject, draft_message)]

\* ---- chat_state == "awaiting_recipient_choice"

\* (mutant) one loop only: the first option that contains the reply
MatchRecipientSubstringOnly(normalized_input, options) ==
    LET partial == {i \in DOMAIN options : Contains(normalized_input, Lower(options[i]))}
    IN  IF partial = {} THEN None ELSE options[Min(partial)]

\* the two loops over the stored options: an exact match first, then a
\* substring match, each taking the first option in stored order
MatchRecipient(normalized_input, options) ==
    LET exact == {i \in DOMAIN options : normalized_input = Lower(options[i])}
        m1 == IF exact = {} THEN None ELSE options[Min(exact)]
        partial == {i \in DOMAIN options : Contains(normalized_input, Lower(options[i]))}
    IN  IF ~Falsy(m1) THEN m1
        ELSE IF partial = {} THEN None ELSE options[Min(partial)]

\* (mutant) a reply that matches no option ends the conversation
NoChoiceOutcomeResets(context, user_message, options) ==
    [effects |-> <<SelectSession, Upsert(EmptyDict, user_message)>>,
     reply |-> [status |-> "ambiguous", message |-> <<"I didn't catch that.">>,
                options |-> options]]

NoChoiceOutcome(context, user_message, options) ==
    [effects |-> <<SelectSession, Upsert(context, user_message)>>,
     reply |-> [status |-> "ambiguous", message |-> <<"I didn't catch that.">>,
                options |-> options]]

SupplierGoneOutcome(context, user_message, matched_recipient) ==
    [effects |-> <<SelectSession, Query("eq", matched_recipient, <<>>),
                   Upsert(context, user_message)>>,
     reply |-> [status |-> "error",
                message |-> <<"Could not find supplier", matched_recipient>>]]

\* (mutant) the chosen recipient is stored and the user is asked for a sender
\* address before anything is drafted
ChosenOutcomeAsksSender(context, user_message, matched_recipient, people, draft_content) ==
    LET recipient == people[1]
        ctx1 == Put(Put(context, "chat_state", "awaiting_sender_choice"),
                    "recipient", recipient)
    IN  [effects |-> <<SelectSession, Query("eq", matched_recipient, people),
                       Upsert(ctx1, user_message)>>,
         reply |-> [status |-> "awaiting_sender_choice",
                    message |-> <<"Which address should this be sent from?">>]]

ChosenOutcome(context, user_message, matched_recipient, people, draft_content) ==
    LET recipient == people[1]
        ctx1 == Put(Put(Put(context, "chat_state", "awaiting_approval"),
                        "recipient", recipient),
                    "last_topic", GetOr(context, "last_topic", DefaultTopic))
        drafted == DraftAndSave(ctx1, user_message, recipient, ctx1["last_topic"],
                                draft_content)
    IN  [effects |-> <<SelectSession, Query("eq", matched_recipient, people),
                       Upsert(ctx1, user_message)>> \o drafted.effects,
         reply |-> drafted.reply]

HandleRecipientChoice(context, user_message, table, draft_content) ==
    LET options == GetOr(context, "options", <<>>)
        matched_recipient == MatchRecipient(Lower(user_message), options)
        people == QueryEq(table, matched_recipient)
    IN  IF Falsy(matched_recipient)
        THEN NoChoiceOutcome(context, user_message, options)
        ELSE IF people = <<>>
        THEN SupplierGoneOutcome(context, user_message, matched_recipient)
        ELSE ChosenOutcome(context, user_message, matched_recipient, people,
                           draft_content)

\* ---- chat_state == "awaiting_approval"

NoDraftOutcome(context, user_message) ==
    [effects |-> <<SelectSession, Upsert(context, user_message)>>,
     reply |-> [status |-> "error", message |-> <<"No draft available. Please start over.">>]]

\* (mutant) the subject and the body change places
EmailPayloadSwapped(recipient, last_subject, last_message) ==
    [to |-> recipient.email, to_name |-> recipient.name,
     subject |-> last_message, message |-> last_subject]

EmailPayload(recipient, last_subject, last_message) ==
    [to |-> recipient.email, to_name |-> recipient.name,
     subject |-> last_subject, message |-> last_message]

\* (mutant) the session is cleared whether or not the webhook call succeeded
SendOutcomeClearsAnyway(context, user_message, webhook_ok) ==
    LET email_payload == EmailPayload(context["recipient"],
                                      context["last_email_subject"],
                                      context["last_email_message"])
    IN  [effects |-> <<SelectSession, Post(email_payload),
                       Upsert(EmptyDict, user_message)>>,
         reply |-> IF webhook_ok
                   THEN [status |-> "sent", message |-> <<"Email sent successfully.">>]
                   ELSE [status |-> "error", message |-> <<"Failed to send email">>]]

SendOutcome(context, user_message, webhook_ok) ==
    LET email_payload == EmailPayload(context["recipient"],
                                      context["last_email_subject"],
                                      context["last_email_message"])
    IN  IF ~webhook_ok
        THEN [effects |-> <<SelectSession, Post(email_payload)>>,
              reply |-> [status |-> "error", message |-> <<"Failed to send email">>]]
        ELSE [effects |-> <<SelectSession, Post(email_payload),
                            Upsert(EmptyDict, user_message)>>,
              reply |-> [status |-> "sent", message |-> <<"Email sent successfully.">>]]

\* (mutant) the redraft also posts the draft it replaces
RedraftOutcomeSendsOldDraft(context, user_message, draft_content) ==
    LET drafted == DraftAndSave(context, user_message, context["recipient"],
                                GetOr(context, "last_topic", DefaultTopic),
                                draft_content)
    IN  [effects |-> <<SelectSession,
                       Post(EmailPayload(context["recipient"],
                                         context["last_email_subject"],
                                         context["last_email_message"]))>>
                     \o drafted.effects,
         reply |-> drafted.reply]

\* (mutant) the redraft takes the reply as the new topic
RedraftOutcomeTopicFromReply(context, user_message, draft_content) ==
    LET drafted == DraftAndSave(Put(context, "last_topic", user_message), user_message,
                                context["recipient"], user_message, draft_content)
    IN  [effects |-> <<SelectSession>> \o drafted.effects, reply |-> drafted.reply]

RedraftOutcome(context, user_message, draft_content) ==
    LET drafted == DraftAndSave(context, user_message, context["recipient"],
                                GetOr(context, "last_topic", DefaultTopic),
                                draft_content)
    IN  [effects |-> <<SelectSession>> \o drafted.effects, reply |-> drafted.reply]

\* (mutant) an unrecognized reply resets the session
RepromptOutcomeResets(context) ==
    [effects |-> <<SelectSession, Upsert(EmptyDict, <<>>)>>,
     reply |-> [status |-> "awaiting_approval",
                message |-> <<"Please respond with Yes to send the email or No to rewrite it.">>,
                subject |-> context["last_email_subject"],
                message_body |-> context["last_email_message"]]]

RepromptOutcome(context) ==
    [effects |-> <<SelectSession>>,
     reply |-> [status |-> "awaiting_approval",
                message |-> <<"Please respond with Yes to send the email or No to rewrite it.">>,
                subject |-> context["last_email_subject"],
                message_body |-> context["last_email_message"]]]

\* (mutant) the negative list is tested first
ClassifyNegativeFirst(lower_msg) ==
    IF IsNegative(lower_msg) THEN "negative"
    ELSE IF IsPositive(lower_msg) THEN "positive"
    ELSE "unrecognized"

\* the if / elif / else over the two keyword lists
Classify(lower_msg) ==
    IF IsPositive(lower_msg) THEN "positive"
    ELSE IF IsNegative(lower_msg) THEN "negative"
    ELSE "unrecognized"

HandleApproval(context, user_message, webhook_ok, draft_content) ==
    LET last_message == Get(context, "last_email_message")
        last_subject == Get(context, "last_email_subject")
        intent == Classify(Lower(user_message))
    IN  IF Falsy(last_message) \/ Falsy(last_subject) \/ "recipient" \notin DOMAIN context
        THEN NoDraftOutcome(context, user_message)
        ELSE IF intent = "positive"
        THEN SendOutcome(context, user_message, webhook_ok)
        ELSE IF intent = "negative"
        THEN RedraftOutcome(context, user_message, draft_content)
        ELSE RepromptOutcome(context)

\* ---- any other chat_state: the initial step

\* (mutant) an answer that does not parse gives no name and no topic
ExtractNothingOnFailure(extract_content, user_message) ==
    IF extract_content.kind = "object"
    THEN [raised |-> FALSE, name |-> Get(extract_content.fields, "name"),
          topic |-> Get(extract_content.fields, "topic")]
    ELSE [raised |-> FALSE, name |-> None, topic |-> None]

\* json.loads of the generator's answer, and on any exception the first word
\* of the message as the name and the whole message as the topic
Extract(extract_content, user_message) ==
    IF extract_content.kind = "object"
    THEN [raised |-> FALSE, name |-> Get(extract_content.fields, "name"),
          topic |-> Get(extract_content.fields, "topic")]
    ELSE IF user_message = <<>>
    THEN [raised |-> TRUE, name |-> None, topic |-> None]
    ELSE [raised |-> FALSE, name |-> FirstWord(user_message), topic |-> user_message]

Http500 == [status |-> "http_500"]

NoNameOutcome ==
    [effects |-> <<SelectSession, Gpt("extract")>>,
     reply |-> [status |-> "error",
                message |-> <<"Could not extract the supplier name from your message.">>]]

\* (mutant) a lookup without a match clears the session
NoMatchOutcomeClears(name) ==
    [effects |-> <<SelectSession, Gpt("extract"), Query("ilike", name, <<>>),
                   Upsert(EmptyDict, <<>>)>>,
     reply |-> [status |-> "error", message |-> <<"No suppliers found matching", name>>]]

NoMatchOutcome(name) ==
    [effects |-> <<SelectSession, Gpt("extract"), Query("ilike", name, <<>>)>>,
     reply |-> [status |-> "error", message |-> <<"No suppliers found matching", name>>]]

\* (mutant) the topic is not stored with the recipient
SingleMatchForgetsTopic(user_message, name, matches, topic, draft_content) ==
    LET recipient == matches[1]
        ctx1 == [chat_state |-> "awaiting_approval", recipient |-> recipient]
        drafted == DraftAndSave(ctx1, user_message, recipient, topic, draft_content)
    IN  [effects |-> <<SelectSession, Gpt("extract"), Query("ilike", name, matches),
                       Upsert(ctx1, user_message)>> \o drafted.effects,
         reply |-> drafted.reply]

SingleMatchOutcome(user_message, name, matches, topic, draft_content) ==
    LET recipient == matches[1]
        ctx1 == [chat_state |-> "awaiting_approval", recipient |-> recipient,
                 last_topic |-> topic]
        drafted == DraftAndSave(ctx1, user_message, recipient, topic, draft_content)
    IN  [effects |-> <<SelectSession, Gpt("extract"), Query("ilike", name, matches),
                       Upsert(ctx1, user_message)>> \o drafted.effects,
         reply |-> drafted.reply]

\* (mutant) only the first two matches are offered
MultipleMatchesFirstTwo(user_message, name, matches, topic) ==
    LET names_list == <<matches[1].name, matches[2].name>>
    IN  [effects |-> <<SelectSession, Gpt("extract"), Query("ilike", name, matches),
                       Upsert([chat_state |-> "awaiting_recipient_choice",
                               options |-> names_list, last_topic |-> topic],
                              user_message)>>,
         reply |-> [status |-> "ambiguous", message |-> <<"I found multiple possibilities.">>,
                    options |-> names_list]]

MultipleMatchesOutcome(user_message, name, matches, topic) ==
    LET names_list == [i \in DOMAIN matches |-> matches[i].name]
    IN  [effects |-> <<SelectSession, Gpt("extract"), Query("ilike", name, matches),
                       Upsert([chat_state |-> "awaiting_recipient_choice",
                               options |-> names_list, last_topic |-> topic],
                              user_message)>>,
         reply |-> [status |-> "ambiguous", message |-> <<"I found multiple possibilities.">>,
                    options |-> names_list]]

HandleInitial(user_message, table, extract_content, draft_content) ==
    LET extracted == Extract(extract_content, user_message)
        name == extracted.name
        topic == extracted.topic
        matches == QueryILike(table, name)
    IN  IF extracted.raised
        THEN [effects |-> <<SelectSession, Gpt("extract")>>, reply |-> Http500]
        ELSE IF Falsy(name) THEN NoNameOutcome
        ELSE IF matches = <<>> THEN NoMatchOutcome(name)
        ELSE IF Len(matches) = 1
        THEN SingleMatchOutcome(user_message, name, matches, topic, draft_content)
        ELSE MultipleMatchesOutcome(user_message, name, matches, topic)

\* ---------------------------------------------- gpt.py: generate_email_draft
\* A value json.loads returns, by its Python type; v is the text of a string.
JStr(v) == [type |-> "string", v |-> v]

JNum == [type |-> "number", v |-> <<>>]

JNull == [type |-> "null", v |-> <<>>]

JArr == [type |-> "array", v |-> <<>>]

\* The `name` and `topic` arguments.
DraftNames == { <<"O", "m", "a", "r">>, <<"O", "m", "a", "r", " ", "S", "a", "i", "d">> }

DraftTopics == { <<"i", "r", "o", "n">>, <<"t", "h", "e", " ", "i", "n", "v", "o", "i", "c", "e">>, <<>> }

\* What openai.ChatCompletion.create gives for the drafting prompt: it raises,
\* or the message content is None, text that is no JSON (the empty text
\* included), JSON that is no object, or a JSON object.
GeneratorContents ==
    { [kind |-> "api_error"],
      [kind |-> "none"],
      [kind |-> "text", text |-> <<>>],
      [kind |-> "text", text |-> <<" ">>],
      [kind |-> "text", text |-> <<"D", "e", "a", "r", " ", "O", "m", "a", "r">>],
      [kind |-> "json_other", value |-> JArr],
      [kind |-> "json_other", value |-> JStr(<<"Q", "u", "o", "t", "e">>)],
      [kind |-> "json_other", value |-> JNum],
      [kind |-> "json_other", value |-> JNull],
      [kind |-> "object", fields |-> <<>>],
      [kind |-> "object", fields |-> [subject |-> JStr(<<"Q", "u", "o", "t", "e">>)]],
      [kind |-> "object", fields |-> [message |-> JStr(<<"H", "e", "l", "l", "o">>)]],
      [kind |-> "object", fields |-> [subject |-> JStr(<<"Q", "u", "o", "t", "e">>), message |-> JStr(<<"H", "e", "l", "l", "o">>)]],
      [kind |-> "object", fields |-> [subject |-> JStr(<<"S", "u", "b", "j", "e", "c", "t", ":", " ", "Q", "u", "o", "t", "e", " ">>), message |-> JStr(<<"H", "e", "l", "l", "o">>)]],
      [kind |-> "object", fields |-> [subject |-> JStr(<<"S", "U", "B", "J", "E", "C", "T", ":">>), message |-> JStr(<<"H", "e", "l", "l", "o">>)]],
      [kind |-> "object", fields |-> [subject |-> JStr(<<>>), message |-> JStr(<<>>)]],
      [kind |-> "object", fields |-> [subject |-> JNum, message |-> JStr(<<"H", "e", "l", "l", "o">>)]],
      [kind |-> "object", fields |-> [subject |-> JNull, message |-> JStr(<<"H", "e", "l", "l", "o">>)]],
      [kind |-> "object", fields |-> [subject |-> JArr, message |-> JStr(<<"H", "e", "l", "l", "o">>)]],
      [kind |-> "object", fields |-> [subject |-> JStr(<<"Q", "u", "o", "t", "e">>), message |-> JNum]],
      [kind |-> "object", fields |-> [subject |-> JStr(<<"Q", "u", "o", "t", "e">>), message |-> JNull]],
      [kind |-> "object", fields |-> [subject |-> JStr(<<"Q", "u", "o", "t", "e">>), message |-> JArr]] }

SubjectColon == <<"s", "u", "b", "j", "e", "c", "t", ":">>

\* the default template of the except clause
FallbackDraft(name, topic) ==
    [raised |-> FALSE,
     subject |-> JStr(<<"F", "o", "l", "l", "o", "w", "-", "u", "p", ":", " ">> \o topic),
     message |-> JStr(<<"D", "e", "a", "r", " ">> \o name
                      \o <<",", "\n", "\n", "I hope this email finds you well. I wanted to follow up regarding ">>
                      \o topic \o <<".", "\n", "\n", "Best regards">>)]

\* the try block on a parsed JSON object that holds both keys: only the
\* subject is used as a string (.lower() raises AttributeError on any other
\* type), the message is returned as it was parsed
CleanDraft(name, topic, fields) ==
    LET subject == fields["subject"]
    IN  IF subject.type # "string" THEN FallbackDraft(name, topic)
        ELSE [raised |-> FALSE,
              subject |-> IF /\ Len(subject.v) >= Len(SubjectColon)
                             /\ SubSeq(Lower(subject.v), 1, Len(SubjectColon)) = SubjectColon
                          THEN JStr(Strip(SubSeq(subject.v, Len(SubjectColon) + 1, Len(subject.v))))
                          ELSE subject,
              message |-> fields["message"]]

\* generate_email_draft(name, topic), given what the generator answers
generate_email_draft(name, topic, content) ==
    IF content.kind = "api_error" THEN [raised |-> TRUE]
    ELSE IF content.kind \in {"none", "text", "json_other"} THEN FallbackDraft(name, topic)
    ELSE IF "subject" \notin DOMAIN content.fields \/ "message" \notin DOMAIN content.fields
    THEN FallbackDraft(name, topic)
    ELSE CleanDraft(name, topic, content.fields)

\* ------------------------------------------------------------------- state
VARIABLES
    sessions,   \* table "sessions": session_id -> [context, last_message]
    suppliers,  \* ids of the rows table "suppliers" holds
    changes,    \* how many times the suppliers table has changed
    last,       \* the request handled last: what came in, what it called, its reply
    email_draft, \* the last call of generate_email_draft: its arguments, its result
    inflight,   \* overlapping requests: request -> what it read, its calls done and to do
    writes,     \* the upserts of overlapping requests, in the order the table took them
    fetched     \* session_id -> the rows of the lookup whose names are the stored options

vars == <<sessions, suppliers, changes, last, email_draft, inflight, writes, fetched>>

\* session.get("context", {}) or {} of the row selected for session_id
Context(session_id) ==
    IF session_id \in DOMAIN sessions THEN sessions[session_id].context ELSE EmptyDict

ChatState(session_id) == GetOr(Context(session_id), "chat_state", "initial")

\* (mutant) an upsert that merges the written context into the stored one
RECURSIVE StoredMerging(_, _, _)
StoredMerging(table, session_id, done) ==
    IF done = <<>> THEN table
    ELSE LET e == Head(done)
             old == IF session_id \in DOMAIN table THEN table[session_id].context
                    ELSE EmptyDict
             merged == [k \in (DOMAIN old) \cup (DOMAIN e.context) |->
                           IF k \in DOMAIN e.context THEN e.context[k] ELSE old[k]]
             next == IF e.op = "upsert"
                     THEN [s \in (DOMAIN table) \cup {session_id} |->
                              IF s = session_id
                              THEN [context |-> merged, last_message |-> e.last_message]
                              ELSE table[s]]
                     ELSE table
         IN  StoredMerging(next, session_id, Tail(done))

\* the session table after the upserts among `done`
RECURSIVE Stored(_, _, _)
Stored(table, session_id, done) ==
    IF done = <<>> THEN table
    ELSE LET e == Head(done)
             next == IF e.op = "upsert"
                     THEN [s \in (DOMAIN table) \cup {session_id} |->
                              IF s = session_id
                              THEN [context |-> e.context, last_message |-> e.last_message]
                              ELSE table[s]]
                     ELSE table
         IN  Stored(next, session_id, Tail(done))

\* what the collaborators answer to one request
Answers(extract_content, draft_content, webhook_ok) ==
    [extract |-> extract_content, draft |-> draft_content, webhook_ok |-> webhook_ok]

NoExtraction == [kind |-> "unused"]

\* The rows behind the stored options: those of the lookup with several
\* matches whose names a request has stored, kept while the session awaits
\* the choice among them.
Fetched(session_id, done) ==
    LET lookups == {i \in DOMAIN done : done[i].op = "query" /\ done[i].kind = "ilike"
                                           /\ Len(done[i].rows) > 1}
        stored == \E i \in DOMAIN done : done[i].op = "upsert"
    IN  IF lookups # {} /\ stored
        THEN Put(fetched, session_id, done[Min(lookups)].rows)
        ELSE IF ChatState(session_id) = "awaiting_recipient_choice"
        THEN fetched
        ELSE [s \in (DOMAIN fetched) \ {session_id} |-> fetched[s]]

\* One request runs to its reply.  fail_at = 0: every call returns; otherwise
\* the fail_at-th external call raises (the webhook's failure is caught by the
\* handler and is the answer webhook_ok instead), the top-level except turns
\* it into HTTP 500 and the calls after it never happen.
Respond(session_id, user_message, answers, outcome, fail_at) ==
    /\ fail_at > 0 => outcome.effects[fail_at].op # "post"
    /\ LET done == IF fail_at = 0 THEN outcome.effects
                   ELSE SubSeq(outcome.effects, 1, fail_at - 1)
           tried == IF fail_at = 0 THEN outcome.effects
                    ELSE SubSeq(outcome.effects, 1, fail_at)
       IN  /\ sessions' = Stored(sessions, session_id, done)
           /\ fetched' = Fetched(session_id, done)
           /\ last' = [session_id |-> session_id, message |-> user_message,
                       had_row |-> session_id \in DOMAIN sessions,
                       before |-> Context(session_id),
                       chat_state |-> IF fail_at = 1 THEN "unread" ELSE ChatState(session_id),
                       answers |-> answers,
                       fail_at |-> fail_at,
                       calls |-> tried,
                       reply |-> IF fail_at > 0 THEN Http500 ELSE outcome.reply]
    /\ UNCHANGED <<suppliers, changes, email_draft, inflight, writes>>

\* the answers of the collaborators a request consumes: those of the calls it makes
DraftAnswers(probe) ==
    IF \E i \in DOMAIN probe.effects :
          probe.effects[i].op = "gpt" /\ probe.effects[i].purpose = "draft"
    THEN DraftContents ELSE {<<>>}

WebhookAnswers(probe) ==
    IF \E i \in DOMAIN probe.effects : probe.effects[i].op = "post"
    THEN BOOLEAN ELSE {TRUE}

ChatRecipientChoice(session_id, raw) ==
    /\ ChatState(session_id) = "awaiting_recipient_choice"
    /\ LET Handle(draft_content) ==
               HandleRecipientChoice(Context(session_id), Strip(raw),
                                     Table(suppliers), draft_content)
       IN  \E draft_content \in DraftAnswers(Handle(<<>>)) :
           \E fail_at \in 0..Len(Handle(draft_content).effects) :
               Respond(session_id, Strip(raw),
                       Answers(NoExtraction, draft_content, TRUE),
                       Handle(draft_content), fail_at)

ChatApproval(session_id, raw) ==
    /\ ChatState(session_id) = "awaiting_approval"
    /\ LET Handle(webhook_ok, draft_content) ==
               HandleApproval(Context(session_id), Strip(raw), webhook_ok, draft_content)
       IN  \E webhook_ok \in WebhookAnswers(Handle(TRUE, <<>>)),
              draft_content \in DraftAnswers(Handle(TRUE, <<>>)) :
           \E fail_at \in 0..Len(Handle(webhook_ok, draft_content).effects) :
               Respond(session_id, Strip(raw),
                       Answers(NoExtraction, draft_content, webhook_ok),
                       Handle(webhook_ok, draft_content), fail_at)

ChatInitial(session_id, raw) ==
    /\ ChatState(session_id) \notin {"awaiting_recipient_choice", "awaiting_approval"}
    /\ \E extract_content \in ExtractionContents :
           LET Handle(draft_content) ==
                   HandleInitial(Strip(raw), Table(suppliers), extract_content,
                                 draft_content)
           IN  \E draft_content \in DraftAnswers(Handle(<<>>)) :
               \E fail_at \in 0..Len(Handle(draft_content).effects) :
                   Respond(session_id, Strip(raw),
                           Answers(extract_content, draft_content, TRUE),
                           Handle(draft_content), fail_at)

\* POST /chat-command
ChatCommand ==
    \E session_id \in SessionIds, raw \in RawMessages :
        \/ ChatRecipientChoice(session_id, raw)
        \/ ChatApproval(session_id, raw)
        \/ ChatInitial(session_id, raw)

\* somebody else inserts or deletes a row of the suppliers table
SupplierChange ==
    /\ changes < MaxSupplierChanges
    /\ changes' = changes + 1
    /\ \E id \in SupplierIds :
          suppliers' = IF id \in suppliers THEN suppliers \ {id} ELSE suppliers \cup {id}
    /\ UNCHANGED <<sessions, last, email_draft, inflight, writes, fetched>>

NoDraftCall == [name |-> <<>>, topic |-> <<>>, content |-> [kind |-> "unused"]]

NoRequest ==
    [session_id |-> "", message |-> <<>>, had_row |-> FALSE, before |-> EmptyDict,
     chat_state |-> "unread", answers |-> Answers(NoExtraction, <<>>, TRUE),
     fail_at |-> 0, calls |-> <<>>, reply |-> [status |-> "none"]]

Init ==
    /\ sessions = EmptyDict
    /\ suppliers = SupplierIds
    /\ changes = 0
    /\ last = NoRequest
    /\ email_draft = NoDraftCall
    /\ inflight = <<>>
    /\ writes = <<>>
    /\ fetched = EmptyDict

Next == ChatCommand \/ SupplierChange

Spec == Init /\ [][Next]_vars

\* ---- the replies to one draft
\* The session row a single-match first message leaves: state awaiting_approval,
\* the recipient, the topic and the draft.
ConfirmationSession ==
    Stored(EmptyDict, "s1",
           HandleInitial(<<"s", "a", "i", "d">>, Table(SupplierIds),
                         [kind |-> "object", fields |-> [name |-> <<"s", "a", "i", "d">>]],
                         <<"H", "i">>).effects)

InitReplies ==
    /\ sessions = ConfirmationSession
    /\ suppliers = SupplierIds
    /\ changes = 0
    /\ last = NoRequest
    /\ email_draft = NoDraftCall
    /\ inflight = <<>>
    /\ writes = <<>>
    /\ fetched = EmptyDict

NextReplies == \E raw \in ApprovalReplies : ChatApproval("s1", raw)

SpecReplies == InitReplies /\ [][NextReplies]_vars

\* ---- the calls of generate_email_draft
GenerateEmailDraft ==
    /\ \E name \in DraftNames, topic \in DraftTopics, content \in GeneratorContents :
          email_draft' = [name |-> name, topic |-> topic, content |-> content,
                          result |-> generate_email_draft(name, topic, content)]
    /\ UNCHANGED <<sessions, suppliers, changes, last, inflight, writes, fetched>>

SpecDrafter == Init /\ [][GenerateEmailDraft]_vars

\* ---- overlapping requests for one session
\* The requests in flight together.
RequestIds == {"r1", "r2"}

\* The raw `message` fields overlapping requests carry.
OverlappingMessages == { <<"y", "e", "s">>, <<"n", "o">> }

\* the if / elif / else on chat_state
Dispatch(context, user_message, table, answers) ==
    LET chat_state == GetOr(context, "chat_state", "initial")
    IN  IF chat_state = "awaiting_recipient_choice"
        THEN HandleRecipientChoice(context, user_message, table, answers.draft)
        ELSE IF chat_state = "awaiting_approval"
        THEN HandleApproval(context, user_message, answers.webhook_ok, answers.draft)
        ELSE HandleInitial(user_message, table, answers.extract, answers.draft)

\* the answers to the extraction prompt a request consumes: the initial step's
ExtractAnswers(chat_state) ==
    IF chat_state \in {"awaiting_recipient_choice", "awaiting_approval"}
    THEN {NoExtraction} ELSE ExtractionContents

\* A request arrives and selects its session row: from here on it works on
\* the context it has read.
Receive(request) ==
    /\ request \notin DOMAIN inflight
    /\ \E session_id \in SessionIds, raw \in OverlappingMessages :
       \E extract_content \in ExtractAnswers(ChatState(session_id)) :
          LET context == Context(session_id)
              Handle(webhook_ok, draft_content) ==
                  Dispatch(context, Strip(raw), Table(suppliers),
                           Answers(extract_content, draft_content, webhook_ok))
          IN  \E webhook_ok \in WebhookAnswers(Handle(TRUE, <<>>)),
                 draft_content \in DraftAnswers(Handle(TRUE, <<>>)) :
                  inflight' = Put(inflight, request,
                                  [session_id |-> session_id, message |-> Strip(raw),
                                   read |-> context,
                                   answers |-> Answers(extract_content, draft_content, webhook_ok),
                                   done |-> <<SelectSession>>,
                                   todo |-> Tail(Handle(webhook_ok, draft_content).effects),
                                   reply |-> Handle(webhook_ok, draft_content).reply])
    /\ UNCHANGED <<sessions, suppliers, changes, last, email_draft, writes, fetched>>

\* A request in flight makes its next call; an upsert replaces the stored row.
Step(request) ==
    /\ request \in DOMAIN inflight
    /\ inflight[request].todo # <<>>
    /\ LET e == Head(inflight[request].todo)
       IN  /\ inflight' = [inflight EXCEPT ![request].done = Append(@, e),
                                           ![request].todo = Tail(@)]
           /\ sessions' = Stored(sessions, inflight[request].session_id, <<e>>)
           /\ writes' = IF e.op = "upsert"
                        THEN Append(writes, [request |-> request, context |-> e.context])
                        ELSE writes
    /\ UNCHANGED <<suppliers, changes, last, email_draft, fetched>>

InitOverlapping ==
    /\ sessions = ConfirmationSession
    /\ suppliers = SupplierIds
    /\ changes = 0
    /\ last = NoRequest
    /\ email_draft = NoDraftCall
    /\ inflight = <<>>
    /\ writes = <<>>
    /\ fetched = EmptyDict

NextOverlapping == \E request \in RequestIds : Receive(request) \/ Step(request)

SpecOverlapping == InitOverlapping /\ [][NextOverlapping]_vars

\* ------------------------------------------------------------------ claims
IsAwaitingConfirmation(context) ==
    GetOr(context, "chat_state", "initial") = "awaiting_approval"

HasRecipient(context) == "recipient" \in DOMAIN context

HasDraft(context) ==
    /\ ~Falsy(Get(context, "last_email_message"))
    /\ ~Falsy(Get(context, "last_email_subject"))

\* the last request was dispatched to the handler of chat_state `state`
Handled(state) == last.session_id \in SessionIds /\ last.chat_state = state

\* the last request's calls of one kind, the one that raised included
CallsOf(op) == SelectSeq(last.calls, LAMBDA e : e.op = op)

DraftCalls == SelectSeq(last.calls, LAMBDA e : e.op = "gpt" /\ e.purpose = "draft")

\* the session row is what it was before the last request
SessionUntouched ==
    /\ CallsOf("upsert") = <<>>
    /\ (last.session_id \in DOMAIN sessions) = last.had_row
    /\ Context(last.session_id) = last.before

\* C1 (as claimed): every stored session whose chat_state is awaiting_approval
\* holds a recipient and a non-empty draft subject and body.
C1_ConfirmationHasRecipientAndDraft ==
    \A s \in DOMAIN sessions :
        IsAwaitingConfirmation(sessions[s].context)
            => HasRecipient(sessions[s].context) /\ HasDraft(sessions[s].context)

\* C2: an affirmative reply to a session awaiting approval with a stored
\* recipient and draft, whose webhook call succeeds (and whose session calls
\* return), posts exactly one email, carrying the stored subject and body to
\* the stored recipient's address, answers `sent`, and leaves the stored
\* context empty, so that the next message takes the initial branch.
C2_Case ==
    /\ Handled("awaiting_approval")
    /\ HasRecipient(last.before) /\ HasDraft(last.before)
    /\ IsPositive(Lower(last.message))
    /\ last.answers.webhook_ok
    /\ last.fail_at = 0

C2_AffirmativeSendsStoredDraftOnce ==
    C2_Case =>
        /\ CallsOf("post") =
              << Post([to |-> last.before["recipient"].email,
                       to_name |-> last.before["recipient"].name,
                       subject |-> last.before["last_email_subject"],
                       message |-> last.before["last_email_message"]]) >>
        /\ last.reply.status = "sent"
        /\ Context(last.session_id) = EmptyDict
        /\ ChatState(last.session_id) = "initial"

C2_Witness == C2_Case /\ last.reply.status = "sent" /\ last.message = <<"Y", "E", "S">>

\* C3: when the webhook call fails on an affirmative reply, the reply is an
\* `error`, nothing is written, the stored context is the one the request
\* read, and an affirmative reply after it posts the same email.
C3_Case ==
    /\ Handled("awaiting_approval")
    /\ HasRecipient(last.before) /\ HasDraft(last.before)
    /\ IsPositive(Lower(last.message))
    /\ ~last.answers.webhook_ok

C3_FailedSendKeepsSession ==
    C3_Case =>
        /\ last.reply.status = "error"
        /\ SessionUntouched
        /\ IsAwaitingConfirmation(Context(last.session_id))
        /\ LET retry == HandleApproval(Context(last.session_id), <<"y", "e", "s">>, TRUE, <<>>)
           IN  /\ retry.reply.status = "sent"
               /\ SelectSeq(retry.effects, LAMBDA e : e.op = "post") = CallsOf("post")

C3_Witness == C3_Case /\ last.reply.status = "error" /\ Len(CallsOf("post")) = 1

\* C4: a reply to a session awaiting approval that contains a keyword of both
\* lists is handled as an affirmative one: the generator is not called, and
\* with a recipient and a draft stored the email is posted, once.
C4_Case ==
    /\ Handled("awaiting_approval")
    /\ IsPositive(Lower(last.message)) /\ IsNegative(Lower(last.message))

C4_AffirmativeBeforeNegative ==
    C4_Case =>
        /\ CallsOf("gpt") = <<>>
        /\ (HasRecipient(last.before) /\ HasDraft(last.before))
              => /\ Len(CallsOf("post")) = 1
                 /\ last.reply.status \in {"sent", "error", "http_500"}
                 /\ (last.answers.webhook_ok /\ last.fail_at = 0)
                        => last.reply.status = "sent"

C4_Witness ==
    /\ C4_Case /\ HasDraft(last.before) /\ last.message = <<"N", "o", "t", " ", "O", "K">>
    /\ last.reply.status = "sent" /\ Len(CallsOf("post")) = 1

\* C5: the option chosen for a reply is the first option, in stored order,
\* that equals the reply ignoring case; failing that, the first that contains
\* it ignoring case; failing that, none.
C5_Chosen(reply, options) ==
    LET equal == {i \in DOMAIN options : Lower(options[i]) = Lower(reply)}
        containing == {i \in DOMAIN options : Contains(Lower(reply), Lower(options[i]))}
    IN  IF equal # {} THEN options[Min(equal)]
        ELSE IF containing # {} THEN options[Min(containing)]
        ELSE None

C5_Case == Handled("awaiting_recipient_choice")

C5_MatchIsExactThenFirstSubstring ==
    C5_Case =>
        LET options == GetOr(last.before, "options", <<>>)
            chosen == C5_Chosen(last.message, options)
        IN  IF chosen = None
            THEN /\ CallsOf("query") = <<>>
                 /\ last.fail_at = 0 => last.reply.status = "ambiguous"
            ELSE /\ Len(CallsOf("query")) = 1
                 /\ CallsOf("query")[1].kind = "eq"
                 /\ CallsOf("query")[1].name = chosen
                 /\ last.fail_at = 0 /\ last.reply.status = "awaiting_approval"
                        => /\ last.reply.recipient = chosen
                           /\ Context(last.session_id)["recipient"].name = chosen

\* an exact match is taken although an earlier option contains the reply
C5_Witness ==
    /\ C5_Case
    /\ LET options == last.before["options"]
       IN  /\ Len(options) >= 2
           /\ Contains(Lower(last.message), Lower(options[1]))
           /\ Lower(options[1]) # Lower(last.message)
           /\ Lower(options[2]) = Lower(last.message)
           /\ last.reply.status = "awaiting_approval"
           /\ last.reply.recipient = options[2]

\* among options that only contain the reply, the first is taken
C5_WitnessSubstring ==
    /\ C5_Case
    /\ LET options == last.before["options"]
       IN  /\ Len(options) >= 2
           /\ \A i \in DOMAIN options : Lower(options[i]) # Lower(last.message)
           /\ Contains(Lower(last.message), Lower(options[1]))
           /\ Contains(Lower(last.message), Lower(options[2]))
           /\ last.reply.status = "awaiting_approval"
           /\ last.reply.recipient = options[1]

\* C6 (as claimed): a request that ends a conversation -- the email sent, the
\* reply that tells the user to start over for want of a draft, or a fault
\* that fails the request -- leaves the stored context empty, so that the
\* next message takes the initial branch.
C6_TerminalOutcomeClearsSession ==
    (/\ last.session_id \in SessionIds
     /\ \/ last.reply.status = "sent"
        \/ last.reply = NoDraftOutcome(last.before, last.message).reply
        \/ last.reply = Http500 /\ last.chat_state # "unread")
        => ChatState(last.session_id) = "initial"

\* the rows the initial branch's directory lookup returned
LookupRows == CallsOf("query")[1].rows

LookedUp == Handled("initial") /\ Len(CallsOf("query")) = 1 /\ last.fail_at = 0

Extracted == Extract(last.answers.extract, last.message)

\* C7: when the initial branch's lookup returns more than one row (and every
\* call returns), the stored context becomes awaiting_recipient_choice with
\* the names of all the rows in table order and the extracted topic, the
\* generator drafts nothing, no email is posted, and the reply is `ambiguous`
\* with the same names as options.
C7_Case == LookedUp /\ Len(LookupRows) > 1

C7_SeveralMatchesAskForChoice ==
    C7_Case =>
        LET names == [i \in DOMAIN LookupRows |-> LookupRows[i].name]
        IN  /\ Context(last.session_id) =
                  [chat_state |-> "awaiting_recipient_choice", options |-> names,
                   last_topic |-> Extracted.topic]
            /\ DraftCalls = <<>>
            /\ CallsOf("post") = <<>>
            /\ last.reply.status = "ambiguous"
            /\ last.reply.options = names

C7_Witness ==
    /\ C7_Case /\ Len(LookupRows) = 3 /\ last.reply.status = "ambiguous"
    /\ ChatState(last.session_id) = "awaiting_recipient_choice"

\* C8 (as claimed): when the initial branch's lookup returns no row, the
\* reply has status `not_found` and the session table is left as it was.
C8_Case == LookedUp /\ LookupRows = <<>>

C8_NoMatchRepliesNotFound ==
    C8_Case => last.reply.status = "not_found" /\ SessionUntouched

\* C8 (amended): when the initial branch's lookup returns no row, the reply
\* has status `error` with the message "No suppliers found matching '<name>'"
\* and the session table is left as it was: no row is written, a session_id
\* without a row still has none.
C8_NoMatchRepliesErrorAndWritesNothing ==
    C8_Case =>
        /\ last.reply.status = "error"
        /\ last.reply.message = <<"No suppliers found matching", Extracted.name>>
        /\ SessionUntouched
        /\ ~last.had_row => last.session_id \notin DOMAIN sessions

C8_Witness ==
    /\ C8_Case /\ ~last.had_row /\ last.session_id \notin DOMAIN sessions
    /\ last.reply.status = "error"

\* the generator's answer to the extraction prompt gave no name: it parsed to
\* an object without one, or it did not parse
ParseFailed == last.answers.extract.kind # "object"

NoNameParsed == ~ParseFailed /\ Falsy(Get(last.answers.extract.fields, "name"))

C9_Case == Handled("initial") /\ last.fail_at = 0

C9_WitnessParseFailure ==
    /\ C9_Case /\ ParseFailed /\ last.message = <<"N", "o", "t", " ", "O", "K">>
    /\ CallsOf("query")[1].name = <<"N", "o", "t">>

\* C10: from a session_id without a row, when the lookup returns exactly one
\* row and the generator answers the drafting prompt with a text that is not
\* blank (and every call returns), the one request leaves the stored context
\* awaiting_approval with that row as recipient, the extracted topic and a
\* non-empty draft, and replies `awaiting_approval` (the awaiting-confirmation
\* status) with the recipient's name.
C10_Case ==
    /\ LookedUp /\ ~last.had_row
    /\ Len(LookupRows) = 1
    /\ Strip(last.answers.draft) # <<>>

C11_Case ==
    /\ Handled("awaiting_approval")
    /\ HasRecipient(last.before) /\ HasDraft(last.before)
    /\ last.fail_at = 0

C11_Sends == Len(CallsOf("post")) = 1 /\ CallsOf("gpt") = <<>>

C11_Redrafts == Len(DraftCalls) = 1 /\ CallsOf("post") = <<>>

C11_Reprompts ==
    /\ CallsOf("post") = <<>> /\ CallsOf("gpt") = <<>>
    /\ last.reply.status = "awaiting_approval"
    /\ "message_body" \in DOMAIN last.reply

\* the reply is affirmative exactly when it contains a word of `affirmative`,
\* otherwise negative exactly when it contains a word of `negative`, and
\* otherwise unrecognized
C11_Follows(affirmative, negative) ==
    LET lower_msg == Lower(last.message)
        is_affirmative == \E word \in affirmative : Contains(word, lower_msg)
        is_negative == ~is_affirmative /\ \E word \in negative : Contains(word, lower_msg)
    IN  /\ is_affirmative <=> C11_Sends
        /\ is_negative <=> C11_Redrafts
        /\ (~is_affirmative /\ ~is_negative) <=> C11_Reprompts

\* C11 (as claimed): the affirmative keywords are yes, okay, go ahead, send,
\* sure, approve and the negative ones no, change, redo, edit, revise; a reply
\* of only "approve" sends and a reply of only "revise" redrafts.
C11_KeywordsAsClaimed ==
    C11_Case =>
        /\ C11_Follows({ <<"y", "e", "s">>, <<"o", "k", "a", "y">>, <<"g", "o", " ", "a", "h", "e", "a", "d">>, <<"s", "e", "n", "d">>, <<"s", "u", "r", "e">>, <<"a", "p", "p", "r", "o", "v", "e">> },
                       { <<"n", "o">>, <<"c", "h", "a", "n", "g", "e">>, <<"r", "e", "d", "o">>, <<"e", "d", "i", "t">>, <<"r", "e", "v", "i", "s", "e">> })
        /\ last.message = <<"a", "p", "p", "r", "o", "v", "e">> => C11_Sends
        /\ last.message = <<"r", "e", "v", "i", "s", "e">> => C11_Redrafts

\* C11 (amended): the affirmative keywords are yes, yeah, yep, sure, correct,
\* go ahead, send, ok, okay and the negative ones no, not, change, edit,
\* rewrite, again, redo; a reply of only "approve" or only "revise" is
\* unrecognized and is answered with the prompt and the stored draft.
C11_KeywordsOfTheHandler ==
    C11_Case =>
        /\ C11_Follows({ <<"y", "e", "s">>, <<"y", "e", "a", "h">>, <<"y", "e", "p">>, <<"s", "u", "r", "e">>, <<"c", "o", "r", "r", "e", "c", "t">>, <<"g", "o", " ", "a", "h", "e", "a", "d">>,
                         <<"s", "e", "n", "d">>, <<"o", "k">>, <<"o", "k", "a", "y">> },
                       { <<"n", "o">>, <<"n", "o", "t">>, <<"c", "h", "a", "n", "g", "e">>, <<"e", "d", "i", "t">>, <<"r", "e", "w", "r", "i", "t", "e">>, <<"a", "g", "a", "i", "n">>,
                         <<"r", "e", "d", "o">> })
        /\ last.message \in { <<"a", "p", "p", "r", "o", "v", "e">>, <<"r", "e", "v", "i", "s", "e">> } => C11_Reprompts

C11_Witness ==
    /\ C11_Case /\ last.message = <<"a", "p", "p", "r", "o", "v", "e">> /\ C11_Reprompts
    /\ last.reply.message_body = <<"H", "i">>

\* ---- C12
\* generate_email_draft was called and the generator gave an answer
C12_Case == "result" \in DOMAIN email_draft /\ email_draft.content.kind # "api_error"

\* the answer is a JSON object whose subject and message are both strings
C12_Usable ==
    /\ email_draft.content.kind = "object"
    /\ DOMAIN email_draft.content.fields = {"subject", "message"}
    /\ email_draft.content.fields["subject"].type = "string"
    /\ email_draft.content.fields["message"].type = "string"

\* C12 (as claimed): whatever the generator answers, generate_email_draft
\* does not raise and returns a subject and a body that are both text; when
\* the answer is not a JSON object holding a text subject and a text message,
\* what it returns is the fallback: the subject "Follow-up: {topic}" and a
\* body that names the recipient and the topic.
C12_MalformedOutputGivesFallback ==
    C12_Case =>
        /\ ~email_draft.result.raised
        /\ email_draft.result.subject.type = "string"
        /\ email_draft.result.message.type = "string"
        /\ ~C12_Usable =>
              /\ email_draft.result.subject.v = <<"F", "o", "l", "l", "o", "w", "-", "u", "p", ":", " ">> \o email_draft.topic
              /\ Contains(email_draft.name, email_draft.result.message.v)
              /\ Contains(email_draft.topic, email_draft.result.message.v)

\* ---- C13
\* the last request stored a recipient the session did not have, and replied
C13_Resolved ==
    /\ last.session_id \in SessionIds /\ last.fail_at = 0
    /\ ~HasRecipient(last.before)
    /\ HasRecipient(Context(last.session_id))

\* C13 (as claimed): a request that resolves the recipient looks up the
\* account's sender addresses before it drafts.
C13_SendersLookedUpBeforeDrafting ==
    C13_Resolved =>
        \E i \in DOMAIN last.calls :
            /\ last.calls[i].op = "senders"
            /\ \A j \in DOMAIN last.calls :
                  (last.calls[j].op = "gpt" /\ last.calls[j].purpose = "draft") => i < j

\* C13 (amended): no request looks up sender addresses, no session is ever
\* stored in a sender-choice state and no reply has the status
\* awaiting_sender_choice; the request that resolves the recipient stores the
\* session as awaiting_approval with that recipient, then drafts, and replies
\* awaiting_approval.
C13_NoSenderStep ==
    /\ \A i \in DOMAIN last.calls :
          last.calls[i].op \in {"select", "gpt", "query", "upsert", "post"}
    /\ \A s \in DOMAIN sessions :
          GetOr(sessions[s].context, "chat_state", "initial")
              \in {"initial", "awaiting_recipient_choice", "awaiting_approval"}
    /\ last.reply.status # "awaiting_sender_choice"
    /\ C13_Resolved =>
          /\ last.reply.status = "awaiting_approval"
          /\ IsAwaitingConfirmation(Context(last.session_id))
          /\ \E i, j \in DOMAIN last.calls :
                /\ i < j
                /\ last.calls[i].op = "upsert"
                /\ IsAwaitingConfirmation(last.calls[i].context)
                /\ HasRecipient(last.calls[i].context)
                /\ last.calls[j].op = "gpt" /\ last.calls[j].purpose = "draft"
                /\ \A k \in DOMAIN last.calls : k < i => last.calls[k].op # "upsert"

C13_Witness ==
    /\ C13_Resolved /\ Handled("awaiting_recipient_choice")
    /\ last.reply.status = "awaiting_approval" /\ Len(DraftCalls) = 1

\* ---- C14
\* the contexts a request's handler writes, given the context it read
C14_OwnWrites(request) ==
    LET r == inflight[request]
        effects == Dispatch(r.read, r.message, Table(suppliers), r.answers).effects
    IN  {effects[i].context : i \in {j \in DOMAIN effects : effects[j].op = "upsert"}}

\* C14: overlapping requests for one session each work on the context they
\* read: every row a request writes is built from that context, whatever the
\* table holds by then, and the stored row is always the one written last.
C14_LastWriterWins ==
    /\ \A i \in DOMAIN writes : writes[i].context \in C14_OwnWrites(writes[i].request)
    /\ writes # <<>> =>
          LET w == writes[Len(writes)]
          IN  Context(inflight[w.request].session_id) = w.context

\* a lost update: both requests read the same session, one sent the email and
\* cleared the session, the other redrafted and wrote after it, and the
\* stored session still awaits approval
C14_Witness ==
    \E r1, r2 \in DOMAIN inflight :
        /\ r1 # r2
        /\ inflight[r1].todo = <<>> /\ inflight[r2].todo = <<>>
        /\ inflight[r1].read = inflight[r2].read
        /\ inflight[r1].reply.status = "sent"
        /\ writes = << [request |-> r1, context |-> EmptyDict],
                       [request |-> r2, context |-> Context(inflight[r2].session_id)] >>
        /\ IsAwaitingConfirmation(Context(inflight[r2].session_id))

\* ---- C15
C15_Case ==
    /\ Handled("awaiting_approval")
    /\ HasRecipient(last.before) /\ HasDraft(last.before)
    /\ ~IsPositive(Lower(last.message)) /\ IsNegative(Lower(last.message))
    /\ last.fail_at = 0

\* the stored topic is the one the request read
C15_TopicKept ==
    /\ ("last_topic" \in DOMAIN Context(last.session_id)) = ("last_topic" \in DOMAIN last.before)
    /\ Get(Context(last.session_id), "last_topic") = Get(last.before, "last_topic")

\* C15: a negative reply that is not affirmative, to a session awaiting
\* approval with a recipient and a draft, calls the generator once for a
\* draft and posts nothing; the stored draft becomes the new one and the
\* session still awaits approval with the same recipient and topic.  No
\* request handled as a recipient choice or as a reply to a draft changes the
\* stored topic, unless it clears the session.
C15_RedraftKeepsRecipientAndTopic ==
    /\ C15_Case =>
          LET after == Context(last.session_id)
          IN  /\ Len(DraftCalls) = 1 /\ CallsOf("gpt") = DraftCalls
              /\ CallsOf("post") = <<>>
              /\ last.reply.status = "awaiting_approval"
              /\ IsAwaitingConfirmation(after)
              /\ DOMAIN after = DOMAIN last.before
              /\ after["recipient"] = last.before["recipient"]
              /\ after["last_email_message"] = Strip(last.answers.draft)
              /\ after["last_email_subject"]
                    = <<"F", "o", "l", "l", "o", "w", "-", "u", "p", " ", "o", "n", ":", " ">> \o Format(Get(last.before, "last_topic"))
              /\ last.reply.message = after["last_email_message"]
              /\ C15_TopicKept
    /\ (Handled("awaiting_recipient_choice") \/ Handled("awaiting_approval"))
          => (Context(last.session_id) = EmptyDict \/ C15_TopicKept)

C15_Witness ==
    /\ C15_Case /\ last.message = <<"n", "o">>
    /\ last.before["last_email_message"] = <<"H", "i">>
    /\ Context(last.session_id)["last_email_message"] = <<"Y", "o">>
    /\ Get(last.before, "last_topic") = <<"i", "r", "o", "n">>
    /\ "options" \in DOMAIN last.before

\* ---- C16
C16_Case ==
    /\ Handled("awaiting_approval")
    /\ HasRecipient(last.before) /\ HasDraft(last.before)
    /\ ~IsPositive(Lower(last.message)) /\ ~IsNegative(Lower(last.message))

\* C16: a reply with no keyword of either list, to a session awaiting
\* approval with a recipient and a draft, makes no call but the session
\* select: nothing is posted, drafted or written, the stored row is the one
\* the request read, and the reply shows the stored subject and body again.
C16_UnrecognizedReplyChangesNothing ==
    C16_Case =>
        /\ last.calls = <<SelectSession>>
        /\ SessionUntouched
        /\ sessions[last.session_id].context = last.before
        /\ last.reply.status = "awaiting_approval"
        /\ last.reply.subject = last.before["last_email_subject"]
        /\ last.reply.message_body = last.before["last_email_message"]

C16_Witness ==
    /\ C16_Case /\ last.message = <<"o", "m", "a", "r">>
    /\ last.reply.status = "awaiting_approval"
    /\ last.reply.message_body = <<"Y", "o">>

\* ---- C17
\* the reply neither equals nor is contained in any stored option
C17_Case ==
    /\ Handled("awaiting_recipient_choice")
    /\ \A i \in DOMAIN GetOr(last.before, "options", <<>>) :
          ~Contains(Lower(last.message), Lower(last.before["options"][i]))

\* C17: a reply to a session awaiting a recipient choice that matches no
\* stored option queries no directory and drafts and posts nothing; the
\* stored context (state, options, topic) is the one the request read, and
\* when the calls return the reply is `ambiguous` with the stored options.
C17_NoMatchKeepsChoiceOpen ==
    C17_Case =>
        /\ CallsOf("query") = <<>> /\ CallsOf("gpt") = <<>> /\ CallsOf("post") = <<>>
        /\ Context(last.session_id) = last.before
        /\ ChatState(last.session_id) = "awaiting_recipient_choice"
        /\ ~HasDraft(Context(last.session_id))
        /\ last.fail_at = 0 =>
              /\ last.reply.status = "ambiguous"
              /\ last.reply.options = last.before["options"]

C17_Witness ==
    /\ C17_Case /\ last.message = <<"n", "o">> /\ last.fail_at = 0
    /\ last.reply.status = "ambiguous" /\ Len(last.reply.options) = 3
    /\ sessions[last.session_id].last_message = <<"n", "o">>

\* ---- C18
\* the last request was a choice among the stored options that succeeded
C18_Case ==
    /\ Handled("awaiting_recipient_choice") /\ last.fail_at = 0
    /\ last.reply.status = "awaiting_approval"
    /\ last.session_id \in DOMAIN fetched

\* the place, in the stored options, of the one the two loops take
C18_ChosenIndex ==
    LET options == last.before["options"]
        exact == {i \in DOMAIN options : Lower(last.message) = Lower(options[i])}
        partial == {i \in DOMAIN options : Contains(Lower(last.message), Lower(options[i]))}
    IN  IF exact # {} THEN Min(exact) ELSE Min(partial)

\* C18 (as claimed): the recipient stored by a successful choice is the
\* directory row that the first message's lookup fetched for the chosen
\* option: the same id and the same address.
C18_ChosenIsTheFetchedEntry ==
    C18_Case =>
        LET entry == fetched[last.session_id][C18_ChosenIndex]
            recipient == Context(last.session_id)["recipient"]
        IN  recipient.id = entry.id /\ recipient.email = entry.email

\* ---- C19
\* the last request called the webhook
C19_Case == last.session_id \in SessionIds /\ CallsOf("post") # <<>>

C20_EmptyReplyResolvesNothing ==
    (Handled("awaiting_recipient_choice") /\ last.message = <<>>) =>
        /\ CallsOf("query") = <<>>
        /\ ~HasRecipient(Context(last.session_id))
        /\ Context(last.session_id) = last.before
        /\ last.fail_at = 0 =>
              /\ last.reply.status = "ambiguous"
              /\ last.reply.options = last.before["options"]

====
